---- MODULE Spec2Model ----
(***************************************************************************)
(* State-machine model of src/main3.py: an interactive black-hole demo.    *)
(* main() builds one offscreen target, one fullscreen quad and one shader  *)
(* program, then runs a single-threaded loop: poll events, render the      *)
(* scene into the offscreen target, draw the distortion pass to the        *)
(* screen, draw the overlay, present.                                      *)
(*                                                                         *)
(* Units.  Python floats are modelled in exact fixed point; every constant *)
(* of the program is a whole number of these units:                        *)
(*   cam_dist                  half units        (18.0 -> 36, 3.5 -> 7)    *)
(*   cam_yaw, cam_pitch        tenths of degree  (35.0 -> 350, 0.3 -> 3)   *)
(*   lens_strength, lens_radius  hundredths      (0.16 -> 16, 0.02 -> 2)   *)
(* The fragment shader is modelled over exact rationals <<num, den>>.      *)
(***************************************************************************)
EXTENDS Integers, Sequences, FiniteSets, TLC

VARIABLES
    WIN_W, WIN_H,                    \* module globals, line 36
    cam_dist, cam_yaw, cam_pitch,    \* lines 41-43
    show_grid, enable_lensing,       \* lines 46-47
    lens_strength, lens_radius,      \* lines 50-51
    event_horizon_radius_px,         \* line 52
    fbo, scene_tex, rbo,             \* main locals, line 345 / 410
    fs_vbo, fs_ebo,                  \* line 348
    post_prog,                       \* line 351
    dragging, last_mx, last_my,      \* lines 357-358
    running,                         \* line 360
    e,                               \* the event the for loop of line 362 is dispatching
    pending,                         \* events of the polled batch not yet dispatched
    pc,                              \* position of main()
    err,                             \* the exception that left main(), or "none"
    gl_tex, gl_rbo, gl_fbo, gl_buf,  \* the GL context's object tables
    shader_outcome,                  \* what the driver answers to compile/link
    scene_pass, uniforms,            \* what this iteration's scene / postprocess pass used
    frame_log,                       \* passes executed in the current iteration
    nev,                             \* events dispatched so far (bounded runs only)
    frag                             \* output of the last shaded fragment

camVars    == <<cam_dist, cam_yaw, cam_pitch>>
toggleVars == <<show_grid, enable_lensing>>
lensVars   == <<lens_strength, lens_radius, event_horizon_radius_px>>
mouseVars  == <<dragging, last_mx, last_my>>
winVars    == <<WIN_W, WIN_H>>
targetVars == <<fbo, scene_tex, rbo>>
quadVars   == <<fs_vbo, fs_ebo, post_prog>>
glVars     == <<gl_tex, gl_rbo, gl_fbo, gl_buf>>
passVars   == <<scene_pass, uniforms, frame_log>>
inputVars  == <<camVars, toggleVars, lensVars, mouseVars, running>>

vars == <<winVars, camVars, toggleVars, lensVars, targetVars, quadVars, mouseVars,
          running, e, pending, pc, err, glVars, shader_outcome, passVars, nev, frag>>

----------------------------------------------------------------------------
(* Bounds of the model. *)

\* Largest number of events one pygame.event.get() returns.
MaxBatch == 2
\* The same, in the specifications that leave the number of events unbounded.
MaxLongRunBatch == 1
\* Largest number of VIDEORESIZE events dispatched in a run.
MaxResizes == 2
\* Largest number of events dispatched in a run of the full-alphabet Spec.
MaxEvents == 4

----------------------------------------------------------------------------
(* Program constants, in the units above. *)

INIT_WIN_W   == 1280
INIT_WIN_H   == 800
CAM_DIST_0   == 36
CAM_YAW_0    == 350
CAM_PITCH_0  == -150
LENS_STRENGTH_0 == 16
LENS_RADIUS_0   == 55
EH_PX_0      == 70
STRENGTH_MAX == 75
STRENGTH_MIN == 2
RADIUS_MIN   == 15
RADIUS_MAX   == 95
LENS_STEP    == 2
DIST_MIN     == 7
DIST_MAX     == 160
DIST_STEP    == 2
PITCH_MIN    == -850
PITCH_MAX    == 850
ANGLE_PER_PX == 3
FULL_TURN    == 3600

min(a, b) == IF a <= b THEN a ELSE b
max(a, b) == IF a >= b THEN a ELSE b

----------------------------------------------------------------------------
(* pygame events.  Every event is a record of one shape; the fields an     *)
(* event type does not carry hold a default.                               *)

Ev(t, k, b, p, w, h) == [type |-> t, key |-> k, button |-> b, pos |-> p, w |-> w, h |-> h]
NoEvent        == Ev("NONE", "", 0, <<0, 0>>, 0, 0)
QuitEv         == Ev("QUIT", "", 0, <<0, 0>>, 0, 0)
KeyDown(k)     == Ev("KEYDOWN", k, 0, <<0, 0>>, 0, 0)
ButtonDown(b, p) == Ev("MOUSEBUTTONDOWN", "", b, p, 0, 0)
ButtonUp(b, p) == Ev("MOUSEBUTTONUP", "", b, p, 0, 0)
Motion(p)      == Ev("MOUSEMOTION", "", 0, p, 0, 0)
Resize(w, h)   == Ev("VIDEORESIZE", "", 0, <<0, 0>>, w, h)
OtherEv        == Ev("ACTIVEEVENT", "", 0, <<0, 0>>, 0, 0)

----------------------------------------------------------------------------
(* The GL context: one table per object kind.  glGen* hands out the next   *)
(* unused name; an entry records whether the object is live and how often  *)
(* its name was passed to glDelete*.                                       *)

GenName(table, obj) == Append(table, obj)
DeleteName(table, n) ==
    IF n \in DOMAIN table
    THEN [table EXCEPT ![n].live = FALSE, ![n].dels = @ + 1]
    ELSE table
IsLive(table, n) == n \in DOMAIN table /\ table[n].live
LiveNames(table) == {n \in DOMAIN table : table[n].live}

----------------------------------------------------------------------------
(* create_fbo_tex(w, h), lines 90-112: a colour texture and a depth        *)
(* renderbuffer of w x h and a framebuffer with both attached.  The driver *)
(* decides whether the framebuffer is complete; when it is not the         *)
(* function raises after the three objects were generated.                 *)

create_fbo_tex(tex_t, rbo_t, fbo_t, w, h, complete) ==
    LET tex  == Len(tex_t) + 1
        rb   == Len(rbo_t) + 1
        fb   == Len(fbo_t) + 1
    IN  [tex_t  |-> GenName(tex_t, [live |-> TRUE, dels |-> 0, w |-> w, h |-> h]),
         rbo_t  |-> GenName(rbo_t, [live |-> TRUE, dels |-> 0, w |-> w, h |-> h]),
         fbo_t  |-> GenName(fbo_t, [live |-> TRUE, dels |-> 0, color |-> tex, depth |-> rb]),
         fbo    |-> fb,
         tex    |-> tex,
         rbo    |-> rb,
         raised |-> ~complete]

(* create_fs_quad(), lines 115-134: a vertex buffer, then an index buffer. *)
create_fs_quad(buf_t) ==
    LET vbo == Len(buf_t) + 1
        ebo == Len(buf_t) + 2
    IN  [buf_t |-> GenName(GenName(buf_t, [live |-> TRUE, dels |-> 0]),
                           [live |-> TRUE, dels |-> 0]),
         vbo   |-> vbo,
         ebo   |-> ebo]

(* compile_shader / link_program, lines 65-88: the exception raised for a  *)
(* driver outcome, "none" when the program links.                          *)
\* link_program without the GL_LINK_STATUS test of lines 82-85
link_program_status_unchecked(outcome) ==
    IF outcome = "vs_error" THEN "Shader compile error"
    ELSE IF outcome = "fs_error" THEN "Shader compile error"
    ELSE "none"
link_program(outcome) ==
    IF outcome = "vs_error" THEN "Shader compile error"
    ELSE IF outcome = "fs_error" THEN "Shader compile error"
    ELSE IF outcome = "link_error" THEN "Program link error"
    ELSE "none"

ShaderOutcomes == {"ok", "vs_error", "fs_error", "link_error"}

NoPass == [ran |-> FALSE, fbo |-> 0, tex |-> 0, live |-> FALSE, w |-> 0, h |-> 0, tw |-> 0, th |-> 0]
NoUniforms == [set |-> FALSE, uScene |-> 0, sampled_live |-> FALSE, quad_live |-> FALSE,
               resX |-> 0, resY |-> 0, uStrength |-> 0, uRadius |-> 0, uEHpx |-> 0]
NoFrag == [d |-> -1, black |-> FALSE, warp |-> <<0, 1>>]

----------------------------------------------------------------------------
(* The state when main() is entered: the module globals of lines 36-52.    *)
(* The locals of lines 356-360 hold the values those lines give them.      *)

Init ==
    /\ WIN_W = INIT_WIN_W /\ WIN_H = INIT_WIN_H
    /\ cam_dist = CAM_DIST_0 /\ cam_yaw = CAM_YAW_0 /\ cam_pitch = CAM_PITCH_0
    /\ show_grid = TRUE /\ enable_lensing = TRUE
    /\ lens_strength = LENS_STRENGTH_0 /\ lens_radius = LENS_RADIUS_0
    /\ event_horizon_radius_px = EH_PX_0
    /\ fbo = 0 /\ scene_tex = 0 /\ rbo = 0
    /\ fs_vbo = 0 /\ fs_ebo = 0 /\ post_prog = 0
    /\ dragging = FALSE /\ last_mx = 0 /\ last_my = 0
    /\ running = TRUE
    /\ e = NoEvent
    /\ pending = 0
    /\ pc = "create_fbo"
    /\ err = "none"
    /\ gl_tex = <<>> /\ gl_rbo = <<>> /\ gl_fbo = <<>> /\ gl_buf = <<>>
    /\ shader_outcome \in ShaderOutcomes
    /\ scene_pass = NoPass /\ uniforms = NoUniforms /\ frame_log = <<>>
    /\ nev = 0
    /\ frag = NoFrag

----------------------------------------------------------------------------
(* Start-up, lines 333-360. *)

\* line 345
CreateSceneTarget ==
    /\ pc = "create_fbo"
    /\ \E complete \in BOOLEAN :
         LET r == create_fbo_tex(gl_tex, gl_rbo, gl_fbo, WIN_W, WIN_H, complete)
         IN  /\ gl_tex' = r.tex_t /\ gl_rbo' = r.rbo_t /\ gl_fbo' = r.fbo_t
             /\ IF r.raised
                THEN /\ err' = "FBO incomplete" /\ pc' = "aborted"
                     /\ UNCHANGED targetVars
                ELSE /\ fbo' = r.fbo /\ scene_tex' = r.tex /\ rbo' = r.rbo
                     /\ pc' = "create_quad" /\ UNCHANGED err
    /\ UNCHANGED <<winVars, camVars, toggleVars, lensVars, quadVars, mouseVars, running,
                   e, pending, gl_buf, shader_outcome, passVars, nev, frag>>

\* line 348
CreateQuad ==
    /\ pc = "create_quad"
    /\ LET r == create_fs_quad(gl_buf)
       IN  gl_buf' = r.buf_t /\ fs_vbo' = r.vbo /\ fs_ebo' = r.ebo
    /\ pc' = "link"
    /\ UNCHANGED <<winVars, camVars, toggleVars, lensVars, targetVars, post_prog, mouseVars,
                   running, e, pending, err, gl_tex, gl_rbo, gl_fbo, shader_outcome,
                   passVars, nev, frag>>

\* lines 351-360: a failed compile or link leaves main() with the exception;
\* otherwise the locals of the loop are set and the loop is reached.
LinkPostProgram ==
    /\ pc = "link"
    /\ LET x == link_program(shader_outcome)
       IN  IF x # "none"
           THEN /\ err' = x /\ pc' = "aborted"
                /\ UNCHANGED <<post_prog, mouseVars, running>>
           ELSE /\ post_prog' = 1
                /\ dragging' = FALSE /\ last_mx' = 0 /\ last_my' = 0
                /\ running' = TRUE
                /\ pc' = "loop" /\ UNCHANGED err
    /\ UNCHANGED <<winVars, camVars, toggleVars, lensVars, targetVars, fs_vbo, fs_ebo,
                   e, pending, glVars, shader_outcome, passVars, nev, frag>>

----------------------------------------------------------------------------
(* The arithmetic of the input handlers. *)

\* zoom_in with min written for max
zoom_in_min_for_max(d) == min(DIST_MIN, d - DIST_STEP)
\* line 387: wheel up
zoom_in(d)  == max(DIST_MIN, d - DIST_STEP)
\* line 389: wheel down
zoom_out(d) == min(DIST_MAX, d + DIST_STEP)
\* line 398: Python's % takes the sign of the divisor, as TLA+'s does
\* orbit_yaw with a remainder that truncates toward zero (C's fmod)
orbit_yaw_truncating(yaw, dx) ==
    LET v == yaw + dx * ANGLE_PER_PX
    IN  IF v < 0 THEN -((-v) % FULL_TURN) ELSE v % FULL_TURN
orbit_yaw(yaw, dx)     == (yaw + dx * ANGLE_PER_PX) % FULL_TURN
\* line 399
orbit_pitch(pitch, dy) == max(PITCH_MIN, min(PITCH_MAX, pitch + dy * ANGLE_PER_PX))
\* strength_up without the min(0.75, ...)
strength_up_unclamped(s) == s + LENS_STEP
\* lines 375, 377
strength_up(s)   == min(STRENGTH_MAX, s + LENS_STEP)
strength_down(s) == max(STRENGTH_MIN, s - LENS_STEP)
\* lines 379, 381
radius_down(r)   == max(RADIUS_MIN, r - LENS_STEP)
radius_up(r)     == min(RADIUS_MAX, r + LENS_STEP)

\* reset_camera levelling the pitch
reset_camera_pitch_zero == <<CAM_DIST_0, CAM_YAW_0, 0>>
\* line 369
reset_camera == <<CAM_DIST_0, CAM_YAW_0, CAM_PITCH_0>>

QuitKeys == {"K_ESCAPE", "K_q"}

\* What the for loop of line 362 does after one event that raised nothing.
AfterEvent == pc' = (IF pending = 1 THEN "scene" ELSE "events") /\ UNCHANGED err

----------------------------------------------------------------------------
(* The branches of the if/elif chain of lines 363-410. *)

\* lines 363-364
OnQuit(ev) ==
    /\ running' = FALSE
    /\ UNCHANGED <<winVars, camVars, toggleVars, lensVars, mouseVars, targetVars, glVars>>
    /\ AfterEvent

\* lines 365-381
OnKeyDown(ev) ==
    /\ IF ev.key \in QuitKeys
       THEN running' = FALSE /\ UNCHANGED <<camVars, toggleVars, lens_strength, lens_radius>>
       ELSE IF ev.key = "K_r"
       THEN /\ cam_dist' = reset_camera[1] /\ cam_yaw' = reset_camera[2]
            /\ cam_pitch' = reset_camera[3]
            /\ UNCHANGED <<running, toggleVars, lens_strength, lens_radius>>
       ELSE IF ev.key = "K_g"
       THEN /\ show_grid' = ~show_grid
            /\ UNCHANGED <<running, camVars, enable_lensing, lens_strength, lens_radius>>
       ELSE IF ev.key = "K_l"
       THEN /\ enable_lensing' = ~enable_lensing
            /\ UNCHANGED <<running, camVars, show_grid, lens_strength, lens_radius>>
       ELSE IF ev.key \in {"K_PLUS", "K_EQUALS"}
       THEN /\ lens_strength' = strength_up(lens_strength)
            /\ UNCHANGED <<running, camVars, toggleVars, lens_radius>>
       ELSE IF ev.key = "K_MINUS"
       THEN /\ lens_strength' = strength_down(lens_strength)
            /\ UNCHANGED <<running, camVars, toggleVars, lens_radius>>
       ELSE IF ev.key = "K_LEFTBRACKET"
       THEN /\ lens_radius' = radius_down(lens_radius)
            /\ UNCHANGED <<running, camVars, toggleVars, lens_strength>>
       ELSE IF ev.key = "K_RIGHTBRACKET"
       THEN /\ lens_radius' = radius_up(lens_radius)
            /\ UNCHANGED <<running, camVars, toggleVars, lens_strength>>
       ELSE UNCHANGED <<running, camVars, toggleVars, lens_strength, lens_radius>>
    /\ UNCHANGED <<winVars, event_horizon_radius_px, mouseVars, targetVars, glVars>>
    /\ AfterEvent

\* lines 382-389
OnMouseButtonDown(ev) ==
    /\ IF ev.button = 1
       THEN /\ dragging' = TRUE
            /\ last_mx' = ev.pos[1] /\ last_my' = ev.pos[2]
            /\ UNCHANGED cam_dist
       ELSE IF ev.button = 4
       THEN cam_dist' = zoom_in(cam_dist) /\ UNCHANGED mouseVars
       ELSE IF ev.button = 5
       THEN cam_dist' = zoom_out(cam_dist) /\ UNCHANGED mouseVars
       ELSE UNCHANGED <<cam_dist, mouseVars>>
    /\ UNCHANGED <<winVars, cam_yaw, cam_pitch, toggleVars, lensVars, running, targetVars, glVars>>
    /\ AfterEvent

\* lines 390-392
OnMouseButtonUp(ev) ==
    /\ IF ev.button = 1
       THEN dragging' = FALSE
       ELSE UNCHANGED dragging
    /\ UNCHANGED <<winVars, camVars, toggleVars, lensVars, running, last_mx, last_my,
                   targetVars, glVars>>
    /\ AfterEvent

\* lines 393-399 (the branch is taken only while dragging)
OnMouseMotion(ev) ==
    /\ LET mx == ev.pos[1]
           my == ev.pos[2]
           dx == mx - last_mx
           dy == my - last_my
       IN  /\ last_mx' = mx /\ last_my' = my
           /\ cam_yaw' = orbit_yaw(cam_yaw, dx)
           /\ cam_pitch' = orbit_pitch(cam_pitch, dy)
    /\ UNCHANGED <<winVars, cam_dist, toggleVars, lensVars, running, dragging, targetVars, glVars>>
    /\ AfterEvent

\* OnVideoResize without the glDeleteTextures of line 408
OnVideoResize_keeps_old(ev) ==
    /\ WIN_W' = ev.w /\ WIN_H' = ev.h
    /\ \E complete \in BOOLEAN :
         LET r == create_fbo_tex(gl_tex, DeleteName(gl_rbo, rbo),
                                 DeleteName(gl_fbo, fbo), ev.w, ev.h, complete)
         IN  /\ gl_tex' = r.tex_t /\ gl_rbo' = r.rbo_t /\ gl_fbo' = r.fbo_t
             /\ IF r.raised
                THEN /\ err' = "FBO incomplete" /\ pc' = "aborted"
                     /\ UNCHANGED targetVars
                ELSE /\ fbo' = r.fbo /\ scene_tex' = r.tex /\ rbo' = r.rbo
                     /\ AfterEvent
    /\ UNCHANGED <<camVars, toggleVars, lensVars, mouseVars, running, gl_buf>>

\* lines 401-410: the old target is deleted, then a new one is created at the
\* new size; an incomplete framebuffer raises out of main().  The window
\* sizes delivered are positive (set_perspective divides by the height).
OnVideoResize(ev) ==
    /\ WIN_W' = ev.w /\ WIN_H' = ev.h
    /\ \E complete \in BOOLEAN :
         LET r == create_fbo_tex(DeleteName(gl_tex, scene_tex), DeleteName(gl_rbo, rbo),
                                 DeleteName(gl_fbo, fbo), ev.w, ev.h, complete)
         IN  /\ gl_tex' = r.tex_t /\ gl_rbo' = r.rbo_t /\ gl_fbo' = r.fbo_t
             /\ IF r.raised
                THEN /\ err' = "FBO incomplete" /\ pc' = "aborted"
                     /\ UNCHANGED targetVars
                ELSE /\ fbo' = r.fbo /\ scene_tex' = r.tex /\ rbo' = r.rbo
                     /\ AfterEvent
    /\ UNCHANGED <<camVars, toggleVars, lensVars, mouseVars, running, gl_buf>>

\* An event no branch matches.
OnIgnored(ev) ==
    /\ UNCHANGED <<winVars, camVars, toggleVars, lensVars, mouseVars, running, targetVars, glVars>>
    /\ AfterEvent

\* One iteration of the for loop of line 362 on event ev.
HandleEvent(ev) ==
    /\ pc = "events" /\ pending > 0
    /\ e' = ev
    /\ pending' = pending - 1
    /\ IF ev.type = "QUIT" THEN OnQuit(ev)
       ELSE IF ev.type = "KEYDOWN" THEN OnKeyDown(ev)
       ELSE IF ev.type = "MOUSEBUTTONDOWN" THEN OnMouseButtonDown(ev)
       ELSE IF ev.type = "MOUSEBUTTONUP" THEN OnMouseButtonUp(ev)
       ELSE IF ev.type = "MOUSEMOTION" /\ dragging THEN OnMouseMotion(ev)
       ELSE IF ev.type = "VIDEORESIZE" THEN OnVideoResize(ev)
       ELSE OnIgnored(ev)
    /\ UNCHANGED <<quadVars, shader_outcome, passVars, frag>>

----------------------------------------------------------------------------
(* The loop of lines 361-478 and the cleanup of lines 480-487. *)

\* lines 361-362: the loop test passes and pygame.event.get() returns n events
PollEvents(n) ==
    /\ pc = "loop" /\ running
    /\ pending' = n
    /\ frame_log' = <<"poll">>
    /\ scene_pass' = NoPass /\ uniforms' = NoUniforms
    /\ pc' = IF n = 0 THEN "scene" ELSE "events"
    /\ UNCHANGED <<winVars, camVars, toggleVars, lensVars, targetVars, quadVars, mouseVars,
                   running, e, err, glVars, shader_outcome, nev, frag>>

\* RenderScene followed by the overlay instead of the postprocess pass
RenderScene_then_overlay ==
    /\ pc = "scene"
    /\ scene_pass' = [NoPass EXCEPT !.ran = TRUE, !.fbo = fbo, !.live = IsLive(gl_fbo, fbo)]
    /\ frame_log' = Append(frame_log, "scene")
    /\ e' = NoEvent
    /\ pc' = "overlay"
    /\ UNCHANGED <<winVars, camVars, toggleVars, lensVars, targetVars, quadVars, mouseVars,
                   running, pending, err, glVars, shader_outcome, uniforms, nev, frag>>

\* lines 412-422: the for loop is left and the scene is drawn into the
\* framebuffer named by fbo
RenderScene ==
    /\ pc = "scene"
    /\ scene_pass' =
         LET live == IsLive(gl_fbo, fbo)
             tex  == IF fbo \in DOMAIN gl_fbo THEN gl_fbo[fbo].color ELSE 0
         IN  [ran |-> TRUE, fbo |-> fbo, tex |-> tex, live |-> live,
              w |-> WIN_W, h |-> WIN_H,
              tw |-> IF tex \in DOMAIN gl_tex THEN gl_tex[tex].w ELSE 0,
              th |-> IF tex \in DOMAIN gl_tex THEN gl_tex[tex].h ELSE 0]
    /\ frame_log' = Append(frame_log, "scene")
    /\ e' = NoEvent
    /\ pc' = "post"
    /\ UNCHANGED <<winVars, camVars, toggleVars, lensVars, targetVars, quadVars, mouseVars,
                   running, pending, err, glVars, shader_outcome, uniforms, nev, frag>>

\* PostProcess passing lens_strength whatever enable_lensing is
PostProcess_ignores_toggle ==
    /\ pc = "post"
    /\ uniforms' = [set |-> TRUE,
                    uScene |-> scene_tex,
                    sampled_live |-> IsLive(gl_tex, scene_tex),
                    quad_live |-> IsLive(gl_buf, fs_vbo) /\ IsLive(gl_buf, fs_ebo),
                    resX |-> WIN_W, resY |-> WIN_H,
                    uStrength |-> lens_strength,
                    uRadius |-> lens_radius,
                    uEHpx |-> event_horizon_radius_px]
    /\ frame_log' = Append(frame_log, "post")
    /\ pc' = "overlay"
    /\ UNCHANGED <<winVars, camVars, toggleVars, lensVars, targetVars, quadVars, mouseVars,
                   running, e, pending, err, glVars, shader_outcome, scene_pass, nev, frag>>

\* lines 424-468: the uniforms are set and the fullscreen quad is drawn
PostProcess ==
    /\ pc = "post"
    /\ uniforms' = [set |-> TRUE,
                    uScene |-> scene_tex,
                    sampled_live |-> IsLive(gl_tex, scene_tex),
                    quad_live |-> IsLive(gl_buf, fs_vbo) /\ IsLive(gl_buf, fs_ebo),
                    resX |-> WIN_W, resY |-> WIN_H,
                    uStrength |-> IF enable_lensing THEN lens_strength ELSE 0,
                    uRadius |-> lens_radius,
                    uEHpx |-> event_horizon_radius_px]
    /\ frame_log' = Append(frame_log, "post")
    /\ pc' = "overlay"
    /\ UNCHANGED <<winVars, camVars, toggleVars, lensVars, targetVars, quadVars, mouseVars,
                   running, e, pending, err, glVars, shader_outcome, scene_pass, nev, frag>>

\* line 471
DrawOverlay ==
    /\ pc = "overlay"
    /\ frame_log' = Append(frame_log, "overlay")
    /\ pc' = "flip"
    /\ UNCHANGED <<winVars, camVars, toggleVars, lensVars, targetVars, quadVars, mouseVars,
                   running, e, pending, err, glVars, shader_outcome, scene_pass, uniforms,
                   nev, frag>>

\* lines 477-478
Flip ==
    /\ pc = "flip"
    /\ frame_log' = Append(frame_log, "present")
    /\ pc' = "loop"
    /\ UNCHANGED <<winVars, camVars, toggleVars, lensVars, targetVars, quadVars, mouseVars,
                   running, e, pending, err, glVars, shader_outcome, scene_pass, uniforms,
                   nev, frag>>

\* Cleanup deleting fs_vbo twice and fs_ebo never
Cleanup_forgets_ebo ==
    /\ pc = "loop" /\ ~running
    /\ gl_fbo' = DeleteName(gl_fbo, fbo)
    /\ gl_tex' = DeleteName(gl_tex, scene_tex)
    /\ gl_rbo' = DeleteName(gl_rbo, rbo)
    /\ gl_buf' = DeleteName(DeleteName(gl_buf, fs_vbo), fs_vbo)
    /\ pc' = "exit"
    /\ UNCHANGED <<winVars, camVars, toggleVars, lensVars, targetVars, quadVars, mouseVars,
                   running, e, pending, err, shader_outcome, passVars, nev, frag>>

\* lines 361, 480-487: the loop test fails; the five objects are deleted
Cleanup ==
    /\ pc = "loop" /\ ~running
    /\ gl_fbo' = DeleteName(gl_fbo, fbo)
    /\ gl_tex' = DeleteName(gl_tex, scene_tex)
    /\ gl_rbo' = DeleteName(gl_rbo, rbo)
    /\ gl_buf' = DeleteName(DeleteName(gl_buf, fs_vbo), fs_ebo)
    /\ pc' = "exit"
    /\ UNCHANGED <<winVars, camVars, toggleVars, lensVars, targetVars, quadVars, mouseVars,
                   running, e, pending, err, shader_outcome, passVars, nev, frag>>

Startup == CreateSceneTarget \/ CreateQuad \/ LinkPostProgram
Frame   == RenderScene \/ PostProcess \/ DrawOverlay \/ Flip \/ Cleanup

----------------------------------------------------------------------------
(* The environment: which events pygame delivers.  Every specification    *)
(* runs the same program; they differ in the alphabet of events.          *)

AllKeys == {"K_ESCAPE", "K_q", "K_r", "K_g", "K_l", "K_PLUS", "K_EQUALS", "K_MINUS",
            "K_LEFTBRACKET", "K_RIGHTBRACKET", "K_a"}
KeyEvents(keys)    == {KeyDown(k) : k \in keys}
MouseEvents(btns, ps) ==
    {ButtonDown(b, p) : b \in btns, p \in ps} \cup {ButtonUp(b, <<0, 0>>) : b \in btns \ {4, 5}}
        \cup {Motion(p) : p \in ps}
ResizeEvents(sizes) == {Resize(s[1], s[2]) : s \in sizes}

\* At most MaxResizes resize events are delivered in a run.
Deliverable(ev) == ev.type = "VIDEORESIZE" => Len(gl_fbo) <= MaxResizes

NextOn(Events, maxn) ==
    \/ Startup
    \/ \E n \in 0..maxn : PollEvents(n)
    \/ \E ev \in Events : Deliverable(ev) /\ HandleEvent(ev) /\ UNCHANGED nev
    \/ Frame

\* Every kind of event, at most MaxEvents of them in a run.
AllEvents == {QuitEv, OtherEv} \cup KeyEvents(AllKeys)
                 \cup MouseEvents({1, 2, 4, 5}, {<<0, 0>>, <<400, 300>>})
                 \cup ResizeEvents({<<640, 480>>})
Next ==
    \/ Startup
    \/ \E n \in 0..min(MaxBatch, MaxEvents - nev) : PollEvents(n)
    \/ \E ev \in AllEvents : Deliverable(ev) /\ HandleEvent(ev) /\ nev' = nev + 1
    \/ Frame
Spec == Init /\ [][Next]_vars

\* Zoom, vertical drag and reset, without bound on the number of events.
CameraEvents == {QuitEv} \cup KeyEvents({"K_r", "K_a"})
                    \cup MouseEvents({1, 4, 5}, {<<0, 0>>, <<0, 300>>})
                    \cup ResizeEvents({<<640, 480>>})
NextCamera == NextOn(CameraEvents, MaxLongRunBatch)
SpecCamera == Init /\ [][NextCamera]_vars

\* The lens keys and the lensing toggle, without bound on the number of events.
LensEvents == {QuitEv} \cup KeyEvents({"K_l", "K_PLUS", "K_EQUALS", "K_MINUS",
                                       "K_LEFTBRACKET", "K_RIGHTBRACKET", "K_a"})
NextLens == NextOn(LensEvents, MaxLongRunBatch)
SpecLens == Init /\ [][NextLens]_vars

\* Dragging with the left and the middle button over a 3 x 2 set of positions.
DragEvents == {QuitEv} \cup KeyEvents({"K_r"})
                  \cup MouseEvents({1, 2}, {<<x, y>> : x \in {0, 300, 1000}, y \in {0, 250}})
NextDrag == NextOn(DragEvents, MaxLongRunBatch)
SpecDrag == Init /\ [][NextDrag]_vars

\* Resizes and the ways to quit.
ResizeAlphabet == {QuitEv} \cup KeyEvents({"K_ESCAPE", "K_q", "K_a"})
                      \cup ResizeEvents({<<640, 480>>, <<800, 1000>>, <<1280, 800>>})
NextResize == NextOn(ResizeAlphabet, MaxBatch)
SpecResize == Init /\ [][NextResize]_vars
\* main() is one sequential thread: whenever it can take a step it does.
SpecResizeFair == SpecResize /\ WF_vars(NextResize)

----------------------------------------------------------------------------
(* POST_FS, lines 151-200, over exact rationals <<num, den>> with den > 0. *)

RECURSIVE GCD(_, _)
GCD(a, b) == IF b = 0 THEN a ELSE GCD(b, a % b)
Abs(a) == IF a < 0 THEN -a ELSE a
Rat(n, d) ==
    LET g == GCD(Abs(n), Abs(d))
        sg == IF d < 0 THEN -1 ELSE 1
    IN  <<(sg * n) \div g, (sg * d) \div g>>
RatAdd(a, b) == Rat(a[1] * b[2] + b[1] * a[2], a[2] * b[2])
RatSub(a, b) == Rat(a[1] * b[2] - b[1] * a[2], a[2] * b[2])
RatMul(a, b) == Rat(a[1] * b[1], a[2] * b[2])
RatDiv(a, b) == Rat(a[1] * b[2], a[2] * b[1])
RatLt(a, b)  == a[1] * b[2] < b[1] * a[2]
RatLe(a, b)  == a[1] * b[2] <= b[1] * a[2]

\* post_fs with d < uEHpx for the d <= uEHpx of line 171
post_fs_strict_horizon(u, d) ==
    LET minHalf == RatMul(Rat(min(u.resX, u.resY), 1), Rat(1, 2))
        dnorm   == RatDiv(d, minHalf)
        r       == Rat(u.uRadius, 100)
        t       == RatSub(Rat(1, 1), RatDiv(dnorm, r))
        warp    == IF RatLt(dnorm, r)
                   THEN RatMul(RatMul(Rat(u.uStrength, 100), t),
                               RatDiv(Rat(1, 1), RatAdd(dnorm, Rat(2, 100))))
                   ELSE Rat(0, 1)
    IN  IF RatLt(d, Rat(u.uEHpx, 1))
        THEN [black |-> TRUE, warp |-> Rat(0, 1)]
        ELSE [black |-> FALSE, warp |-> warp]

\* The fragment at distance d (a rational number of pixels, line 168) from
\* the screen centre, under uniforms u: whether it is written black, and the
\* warp of line 180/185 otherwise.
post_fs(u, d) ==
    LET minHalf == RatMul(Rat(min(u.resX, u.resY), 1), Rat(1, 2))
        dnorm   == RatDiv(d, minHalf)
        r       == Rat(u.uRadius, 100)
        t       == RatSub(Rat(1, 1), RatDiv(dnorm, r))
        warp    == IF RatLt(dnorm, r)
                   THEN RatMul(RatMul(Rat(u.uStrength, 100), t),
                               RatDiv(Rat(1, 1), RatAdd(dnorm, Rat(2, 100))))
                   ELSE Rat(0, 1)
    IN  IF RatLe(d, Rat(u.uEHpx, 1))
        THEN [black |-> TRUE, warp |-> Rat(0, 1)]
        ELSE [black |-> FALSE, warp |-> warp]

\* Largest distance from the centre, in tenths of a pixel, of a shaded fragment.
MaxD == 70

ShaderUniforms ==
    {[set |-> TRUE, uScene |-> 1, sampled_live |-> TRUE, quad_live |-> TRUE,
      resX |-> res[1], resY |-> res[2],
      uStrength |-> s, uRadius |-> r, uEHpx |-> eh] :
        res \in {<<16, 10>>, <<10, 16>>, <<12, 12>>}, s \in {0, 2, 16, 75},
        r \in {15, 55, 95}, eh \in {0, 2, 4}}

\* The uniforms are drawn from ShaderUniforms; the rest is the state of Init.
InitShader ==
    /\ WIN_W = INIT_WIN_W /\ WIN_H = INIT_WIN_H
    /\ cam_dist = CAM_DIST_0 /\ cam_yaw = CAM_YAW_0 /\ cam_pitch = CAM_PITCH_0
    /\ show_grid = TRUE /\ enable_lensing = TRUE
    /\ lens_strength = LENS_STRENGTH_0 /\ lens_radius = LENS_RADIUS_0
    /\ event_horizon_radius_px = EH_PX_0
    /\ fbo = 0 /\ scene_tex = 0 /\ rbo = 0
    /\ fs_vbo = 0 /\ fs_ebo = 0 /\ post_prog = 0
    /\ dragging = FALSE /\ last_mx = 0 /\ last_my = 0
    /\ running = TRUE
    /\ e = NoEvent
    /\ pending = 0
    /\ pc = "shade"
    /\ err = "none"
    /\ gl_tex = <<>> /\ gl_rbo = <<>> /\ gl_fbo = <<>> /\ gl_buf = <<>>
    /\ shader_outcome = "ok"
    /\ scene_pass = NoPass /\ uniforms \in ShaderUniforms /\ frame_log = <<>>
    /\ nev = 0
    /\ frag = NoFrag

\* One fragment of the fullscreen quad is shaded.
ShadeFragment ==
    /\ pc = "shade"
    /\ \E D \in 0..MaxD :
         LET out == post_fs(uniforms, Rat(D, 10))
         IN  frag' = [d |-> D, black |-> out.black, warp |-> out.warp]
    /\ pc' = "shaded"
    /\ UNCHANGED <<winVars, camVars, toggleVars, lensVars, targetVars, quadVars, mouseVars,
                   running, e, pending, err, glVars, shader_outcome, passVars, nev>>

SpecShader == InitShader /\ [][ShadeFragment]_vars

----------------------------------------------------------------------------
(* Properties. *)

\* A step of the for loop: one event (e') is dispatched.
Dispatching == pc = "events" /\ pending' = pending - 1
IsKey(ev, keys)  == ev.type = "KEYDOWN" /\ ev.key \in keys
IsButtonDown(ev, b) == ev.type = "MOUSEBUTTONDOWN" /\ ev.button = b
IsButtonUp(ev, b)   == ev.type = "MOUSEBUTTONUP" /\ ev.button = b
\* v, held inside [lo, hi]
Saturate(lo, hi, v) == IF v < lo THEN lo ELSE IF v > hi THEN hi ELSE v

FullFrame == <<"poll", "scene", "post", "overlay", "present">>
LoopPcs   == {"loop", "events", "scene", "post", "overlay", "flip"}
Released(table, n) == n \in DOMAIN table /\ ~table[n].live /\ table[n].dels = 1

C1_InRange ==
    /\ PITCH_MIN <= cam_pitch /\ cam_pitch <= PITCH_MAX
    /\ DIST_MIN <= cam_dist /\ cam_dist <= DIST_MAX
C1_Step ==
    Dispatching =>
        /\ IsButtonDown(e', 4) => cam_dist' = Saturate(DIST_MIN, DIST_MAX, cam_dist - 2)
        /\ IsButtonDown(e', 5) => cam_dist' = Saturate(DIST_MIN, DIST_MAX, cam_dist + 2)
        /\ (e'.type = "MOUSEMOTION" /\ dragging) =>
               cam_pitch' = Saturate(PITCH_MIN, PITCH_MAX, cam_pitch + 3 * (e'.pos[2] - last_my))
\* C1: from the initial camera, after any sequence of input events cam_pitch
\* stays within [-85, 85] degrees and cam_dist within [3.5, 80]; wheel-up
\* lowers the distance by 1 but not below 3.5, wheel-down raises it by 1 but
\* not above 80, and a drag changes the pitch by 0.3*dy saturating at -85 and 85.
C1_CameraClamped == []C1_InRange /\ [][C1_Step]_vars
\* Wheel-up has just held the distance at 3.5 while a drag had held the pitch at 85.
C1_Witness == IsButtonDown(e, 4) /\ cam_dist = DIST_MIN /\ cam_pitch = PITCH_MAX

C2_InRange ==
    /\ STRENGTH_MIN <= lens_strength /\ lens_strength <= STRENGTH_MAX
    /\ RADIUS_MIN <= lens_radius /\ lens_radius <= RADIUS_MAX
C2_Step ==
    Dispatching =>
        /\ IsKey(e', {"K_PLUS", "K_EQUALS"}) =>
               lens_strength' = Saturate(2, 75, lens_strength + 2)
        /\ IsKey(e', {"K_MINUS"}) => lens_strength' = Saturate(2, 75, lens_strength - 2)
        /\ IsKey(e', {"K_RIGHTBRACKET"}) => lens_radius' = Saturate(15, 95, lens_radius + 2)
        /\ IsKey(e', {"K_LEFTBRACKET"}) => lens_radius' = Saturate(15, 95, lens_radius - 2)
        /\ (IsKey(e', {"K_PLUS", "K_EQUALS"}) /\ lens_strength = 75) => lens_strength' = 75
        /\ (IsKey(e', {"K_MINUS"}) /\ lens_strength = 2) => lens_strength' = 2
        /\ (IsKey(e', {"K_RIGHTBRACKET"}) /\ lens_radius = 95) => lens_radius' = 95
        /\ (IsKey(e', {"K_LEFTBRACKET"}) /\ lens_radius = 15) => lens_radius' = 15
\* C2: from strength 0.16 and radius 0.55, after any sequence of key events
\* lens_strength stays within [0.02, 0.75] and lens_radius within [0.15, 0.95];
\* '+'/'=' and '-' move the strength by 0.02, ']' and '[' move the radius by
\* 0.02, each saturating at its bound, and a key repeated at its bound leaves
\* the value there.
C2_LensClamped == []C2_InRange /\ [][C2_Step]_vars
\* '+' has just been pressed with the strength at 0.75, the radius being at 0.15.
C2_Witness == IsKey(e, {"K_PLUS"}) /\ lens_strength = STRENGTH_MAX /\ lens_radius = RADIUS_MIN

C3_OneTarget ==
    pc \notin {"create_fbo", "exit"} =>
        /\ Cardinality(LiveNames(gl_fbo)) = 1
        /\ Cardinality(LiveNames(gl_tex)) = 1
        /\ Cardinality(LiveNames(gl_rbo)) = 1
        /\ \A n \in DOMAIN gl_fbo : gl_fbo[n].live \/ Released(gl_fbo, n)
        /\ \A n \in DOMAIN gl_tex : gl_tex[n].live \/ Released(gl_tex, n)
        /\ \A n \in DOMAIN gl_rbo : gl_rbo[n].live \/ Released(gl_rbo, n)
        /\ pc # "aborted" =>
              /\ LiveNames(gl_fbo) = {fbo}
              /\ LiveNames(gl_tex) = {scene_tex}
              /\ LiveNames(gl_rbo) = {rbo}
              /\ gl_fbo[fbo].color = scene_tex /\ gl_fbo[fbo].depth = rbo
              /\ gl_tex[scene_tex].w = WIN_W /\ gl_tex[scene_tex].h = WIN_H
              /\ gl_rbo[rbo].w = WIN_W /\ gl_rbo[rbo].h = WIN_H
C3_Passes ==
    /\ scene_pass.ran =>
           /\ scene_pass.live /\ scene_pass.fbo = fbo
           /\ scene_pass.w = WIN_W /\ scene_pass.h = WIN_H
           /\ scene_pass.tw = WIN_W /\ scene_pass.th = WIN_H
    /\ uniforms.set =>
           /\ uniforms.sampled_live /\ uniforms.uScene = scene_tex
           /\ uniforms.uScene = scene_pass.tex
           /\ uniforms.resX = WIN_W /\ uniforms.resY = WIN_H
C3_Step ==
    (Dispatching /\ e'.type = "VIDEORESIZE") =>
        /\ Released(gl_fbo', fbo) /\ Released(gl_tex', scene_tex) /\ Released(gl_rbo', rbo)
        /\ WIN_W' = e'.w /\ WIN_H' = e'.h
        /\ Len(gl_tex') = Len(gl_tex) + 1
        /\ gl_tex'[Len(gl_tex')].w = e'.w /\ gl_tex'[Len(gl_tex')].h = e'.h
\* C3: every resize event releases the previous offscreen target (framebuffer,
\* texture, renderbuffer) and creates one at the new window size; exactly one
\* target is live, every earlier one was released, and whenever the scene or
\* the postprocess pass runs the live target has the size WIN_W x WIN_H and the
\* postprocess pass samples the live target's texture.
C3_TargetFollowsWindow == [](C3_OneTarget /\ C3_Passes) /\ [][C3_Step]_vars
\* The postprocess pass has run on the third target, after two resizes.
C3_Witness == uniforms.set /\ Len(gl_fbo) = 3 /\ uniforms.uScene = 3 /\ WIN_W = 800

C4_Order ==
    /\ pc = "events" => frame_log = <<"poll">> /\ pending > 0
    /\ pc = "scene" => frame_log = <<"poll">> /\ pending = 0
    /\ pc = "post" => frame_log = <<"poll", "scene">> /\ pending = 0
    /\ pc = "overlay" => frame_log = <<"poll", "scene", "post">> /\ pending = 0
    /\ pc = "flip" => frame_log = <<"poll", "scene", "post", "overlay">> /\ pending = 0
    /\ pc \in {"loop", "exit"} => frame_log \in {<<>>, FullFrame}
    /\ frame_log = FullFrame => scene_pass.ran /\ uniforms.set /\ uniforms.uScene = scene_pass.tex
C4_Step ==
    /\ (inputVars' # inputVars \/ winVars' # winVars) =>
           pc = "events" /\ frame_log = <<"poll">> /\ frame_log' = <<"poll">>
    /\ (pc \in {"scene", "post", "overlay", "flip"}) =>
           /\ Len(frame_log') = Len(frame_log) + 1
           /\ UNCHANGED <<inputVars, winVars, targetVars>>
C5_ShaderFailureAborts ==
    shader_outcome # "ok" =>
        /\ pc \in {"create_fbo", "create_quad", "link", "aborted"}
        /\ post_prog = 0
        /\ e = NoEvent /\ nev = 0 /\ pending = 0
        /\ frame_log = <<>> /\ ~scene_pass.ran /\ ~uniforms.set
        /\ (pc = "aborted" /\ Len(gl_buf) > 0) =>
               err = (IF shader_outcome = "link_error" THEN "Program link error"
                      ELSE "Shader compile error")
\* The link failed and main() was left with the link error.
C5_Witness == shader_outcome = "link_error" /\ pc = "aborted" /\ err = "Program link error"

\* The claim's quantities for the shaded fragment, in whole numbers: the
\* distance is frag.d tenths of a pixel, m is the smaller window dimension, the
\* strength and the radius are hundredths.
C6_m == min(uniforms.resX, uniforms.resY)
C6_InsideHorizon == frag.d <= 10 * uniforms.uEHpx
\* dn < r, with dn = (d/10) / (m/2) and r = uRadius/100
C6_InsideRadius  == 20 * frag.d < C6_m * uniforms.uRadius
\* C6: a pixel at distance d from the screen centre is written pure black when
\* d is at most the event-horizon radius; otherwise its sample position is
\* displaced by warp = strength * (1 - dn/r) / (dn + 0.02) when dn = d / (half
\* the smaller window dimension) is below the lens radius r, and by 0 when
\* dn >= r; the black cutoff wins for every strength and radius.
\* (warp = S (m R - 20 D) / (2 R (10 D + m)) in the whole numbers above.)
C6_ShaderFormula ==
    pc = "shaded" =>
        /\ C6_InsideHorizon => frag.black
        /\ ~C6_InsideHorizon =>
               /\ ~frag.black
               /\ C6_InsideRadius =>
                      frag.warp[1] * (2 * uniforms.uRadius * (10 * frag.d + C6_m))
                          = uniforms.uStrength * (C6_m * uniforms.uRadius - 20 * frag.d)
                                * frag.warp[2]
               /\ ~C6_InsideRadius => frag.warp[1] = 0
\* A fragment on the horizon's edge, inside the lens radius, strength above 0.
C6_Witness ==
    /\ pc = "shaded" /\ frag.black /\ frag.d = 10 * uniforms.uEHpx /\ uniforms.uEHpx > 0
    /\ C6_InsideRadius /\ uniforms.uStrength > 0

\* Distances, in tenths of a pixel, at which the frame's displacement is probed.
ProbeD == {0, 700, 701, 1500, 2199, 2200, 3999, 4000, 7500}
C7_Uniforms ==
    uniforms.set =>
        /\ uniforms.uStrength = (IF enable_lensing THEN lens_strength ELSE 0)
        /\ uniforms.uRadius = lens_radius
        /\ uniforms.uEHpx = event_horizon_radius_px
        /\ ~enable_lensing => \A D \in ProbeD : post_fs(uniforms, Rat(D, 10)).warp[1] = 0
C7_Step ==
    Dispatching =>
        /\ IsKey(e', {"K_l"}) =>
               /\ enable_lensing' = ~enable_lensing
               /\ UNCHANGED <<lensVars, camVars, show_grid, mouseVars, winVars, running>>
        /\ ~enable_lensing =>
               /\ IsKey(e', {"K_PLUS", "K_EQUALS"}) =>
                      lens_strength' = Saturate(2, 75, lens_strength + 2)
               /\ IsKey(e', {"K_MINUS"}) => lens_strength' = Saturate(2, 75, lens_strength - 2)
               /\ IsKey(e', {"K_RIGHTBRACKET"}) =>
                      lens_radius' = Saturate(15, 95, lens_radius + 2)
               /\ IsKey(e', {"K_LEFTBRACKET"}) =>
                      lens_radius' = Saturate(15, 95, lens_radius - 2)
\* C7: the L key flips enable_lensing and changes nothing else (so two presses
\* restore the state); each frame's shader strength is lens_strength when
\* lensing is on and 0 when it is off (no pixel is displaced), its radius and
\* event-horizon radius do not depend on the toggle; '+', '-', '[' and ']'
\* still change strength and radius while lensing is off.
C7_LensingToggle == []C7_Uniforms /\ [][C7_Step]_vars
\* A frame drawn with lensing off after the strength was raised to 0.75 and
\* the radius lowered to 0.15.
C7_Witness ==
    /\ uniforms.set /\ ~enable_lensing /\ uniforms.uStrength = 0
    /\ lens_strength = STRENGTH_MAX /\ uniforms.uRadius = RADIUS_MIN

C8_Step ==
    (Dispatching /\ IsKey(e', {"K_r"})) =>
        /\ cam_dist' = 36 /\ cam_yaw' = 350 /\ cam_pitch' = -150
        /\ UNCHANGED <<show_grid, enable_lensing, lens_strength, lens_radius,
                       event_horizon_radius_px, WIN_W, WIN_H, dragging, last_mx, last_my>>
        /\ IsKey(e, {"K_r"}) => UNCHANGED <<inputVars, winVars, targetVars>>
\* C8: the R key sets the camera to (distance 18, yaw 35, pitch -15) and leaves
\* show_grid, enable_lensing, lens_strength, lens_radius, the event-horizon
\* radius, the window size, the dragging flag and the last mouse position
\* unchanged; a second R changes nothing.
C8_ResetCamera == [][C8_Step]_vars
\* R has reset the camera during a drag, after a resize, with the grid off.
C8_Witness ==
    /\ IsKey(e, {"K_r"}) /\ cam_dist = 36 /\ cam_yaw = 350 /\ cam_pitch = -150
    /\ dragging /\ last_mx = 400 /\ WIN_W = 640 /\ ~show_grid

C9_Step ==
    Dispatching =>
        /\ (e'.type = "MOUSEMOTION" /\ ~dragging) => UNCHANGED <<camVars, mouseVars>>
        /\ (e'.type = "MOUSEMOTION" /\ dragging) =>
               /\ cam_yaw' = (cam_yaw + 3 * (e'.pos[1] - last_mx)) % 3600
               /\ cam_pitch' = Saturate(-850, 850, cam_pitch + 3 * (e'.pos[2] - last_my))
               /\ last_mx' = e'.pos[1] /\ last_my' = e'.pos[2]
               /\ UNCHANGED <<cam_dist, dragging>>
        /\ IsButtonDown(e', 1) =>
               dragging' /\ last_mx' = e'.pos[1] /\ last_my' = e'.pos[2] /\ UNCHANGED camVars
        /\ IsButtonUp(e', 1) => ~dragging' /\ UNCHANGED camVars
        /\ ~(IsButtonDown(e', 1) \/ IsButtonUp(e', 1)) => UNCHANGED dragging
        /\ e'.type # "MOUSEMOTION" /\ ~IsKey(e', {"K_r"}) => UNCHANGED <<cam_yaw, cam_pitch>>
\* C9: mouse motion changes cam_yaw and cam_pitch only while the left button
\* is held (between a button-1 down and the next button-1 up); a motion
\* outside a drag leaves the camera unchanged, a motion inside a drag applies
\* 0.3 times the delta from the last recorded mouse position (the button-down
\* position for the first motion), and cam_yaw always lies in [0, 360).
C9_DragOrbits == [](0 <= cam_yaw /\ cam_yaw < 3600) /\ [][C9_Step]_vars
\* A drag to the left has wrapped the yaw from 35 below 0 to 305 degrees.
C9_Witness == e.type = "MOUSEMOTION" /\ dragging /\ cam_yaw = 3050 /\ last_mx = 0

AllReleasedOnce(table) == \A n \in DOMAIN table : Released(table, n)
C10_CleanedUp ==
    /\ frame_log = FullFrame
    /\ AllReleasedOnce(gl_fbo) /\ AllReleasedOnce(gl_tex) /\ AllReleasedOnce(gl_rbo)
    /\ AllReleasedOnce(gl_buf) /\ Len(gl_buf) = 2
C10_NoUseAfterRelease ==
    /\ scene_pass.ran => scene_pass.live
    /\ uniforms.set => uniforms.sampled_live /\ uniforms.quad_live
C10_Safety ==
    /\ pc = "exit" => ~running /\ C10_CleanedUp
    /\ C10_NoUseAfterRelease
    /\ \A n \in DOMAIN gl_fbo : gl_fbo[n].dels <= 1
    /\ \A n \in DOMAIN gl_tex : gl_tex[n].dels <= 1
    /\ \A n \in DOMAIN gl_rbo : gl_rbo[n].dels <= 1
    /\ \A n \in DOMAIN gl_buf : gl_buf[n].dels <= 1
C10_Step ==
    /\ pc # "exit"
    /\ (~running /\ pc = "events") => Dispatching /\ e' # NoEvent
    /\ (~running /\ pc = "loop") => pc' = "exit"
    /\ (~running /\ pc \in {"scene", "post", "overlay", "flip"}) =>
           Len(frame_log') = Len(frame_log) + 1
====
